---- MODULE Spec2Model ----
(***************************************************************************)
(* Model of scripts/packager-codes/non-eu/packager_codes.py: the diff of   *)
(* two document-record collections (get_diff) and the two commands,        *)
(* "download" and "status", acting on one data directory.                  *)
(*                                                                         *)
(* One directory is modelled: dirExists says whether it exists, fs maps    *)
(* every path below it (the documents' file_path values and meta.json) to  *)
(* the content of that file.  Commands run one after the other; pc is the  *)
(* position of the running command, "idle" between two runs.               *)
(***************************************************************************)
EXTENDS Integers, Sequences, FiniteSets, TLC

\* ---------------------------------------------------------------- bounds
MaxLen == 2      \* longest record list the scraper returns (file_path being
                 \* unique, a list is also no longer than DocPaths is large)
MaxDate == 2     \* publication dates are 1..MaxDate
MaxByte == 1     \* a response body is one of 0..MaxByte (0: the empty body)

\* ------------------------------------------------------- document records
\* file_path values of documents; meta.json is the manifest's own name and,
\* by the data model, no document record names it.
DocPaths == {"a.pdf", "b.pdf"}
MetaName == "meta.json"
AllPaths == DocPaths \cup {MetaName}
Urls == {"u1", "u2"}
\* publication_date: the code compares the values with >, here integers
Dates == 1..MaxDate
Bytes == 0..MaxByte
Timestamps == {"t1", "t2"}

JSONObject == [file_path : DocPaths, url : Urls, publication_date : Dates]

Range(s) == {s[k] : k \in 1..Len(s)}

FilePaths(s) == {s[k].file_path : k \in 1..Len(s)}

UniquePaths(s) == \A j, k \in 1..Len(s) : s[j].file_path = s[k].file_path => j = k

\* What the spider prints and json.loads returns: a list of document records,
\* file_path unique in the list.
ScrapeResults ==
    {s \in UNION {[1..n -> JSONObject] : n \in 0..MaxLen} : UniquePaths(s)}

\* ------------------------------------------------------------ file system
NoFile == [kind |-> "absent"]
DocFile(b) == [kind |-> "doc", bytes |-> b]
\* a file opened with "wb" whose write did not complete
Truncated == DocFile(0)
Malformed == [kind |-> "malformed"]

\* json.dump / json.load of the manifest: the file holds the JSON text of the
\* object; a file that is no JSON text does not load.
json_dump(obj) == [kind |-> "json", text |-> obj]
CanLoad(file) == file.kind = "json"
json_load(file) == file.text

EmptyDir == [p \in AllPaths |-> NoFile]

VARIABLES
    dirExists,        \* the data directory exists
    fs,               \* path under the directory -> file content
    cmd,              \* the command of the current / last run
    pc,               \* position in the running command
    exit,             \* how the last run ended
    document_info,    \* download: the scraped list
    i,                \* download_documents: records handled so far
    scraperInvoked,   \* this run has called scrape_document_info
    fetchLog,         \* this run: the urls passed to urlopen, in order
    fetched,          \* this run: the bodies read, one per downloaded record
    preDir, preFs,    \* the directory as it was when the run started
    local_meta,       \* status: the loaded manifest
    scraped_info,     \* status: the scraped list
    doc_diff,         \* status: the result of get_diff
    output,           \* status: what was printed
    aborted           \* some download run ended in a scrape or fetch failure

vars == <<dirExists, fs, cmd, pc, exit, document_info, i, scraperInvoked,
          fetchLog, fetched, preDir, preFs, local_meta, scraped_info,
          doc_diff, output, aborted>>

NoMeta == [none |-> TRUE]
NoDiff == [tag |-> "none"]
NoOutput == [format |-> "none"]

\* ---------------------------------------------------------------- get_diff
\* {d["file_path"]: d for d in s}: the keys in the order of first insertion,
\* the value of a key the last record that has it.
RECURSIVE DictKeys(_)
DictKeys(s) ==
    IF s = <<>> THEN <<>>
    ELSE LET front == DictKeys(SubSeq(s, 1, Len(s) - 1))
             p == s[Len(s)].file_path
         IN  IF p \in Range(front) THEN front ELSE Append(front, p)

DictGet(s, p) ==
    s[CHOOSE k \in 1..Len(s) :
        /\ s[k].file_path = p
        /\ \A j \in (k + 1)..Len(s) : s[j].file_path # p]

\* Variant of Newer: >= in place of >.
NewerOrEqual(scrapedDoc, localDoc) ==
    scrapedDoc.publication_date >= localDoc.publication_date

Newer(scrapedDoc, localDoc) ==
    scrapedDoc.publication_date > localDoc.publication_date

\* new and removed are built from sets of names, in an order the code does not
\* fix: they are modelled as sets of records.  updated follows local_docs.
\* The comprehension of updated_names looks every local name up in
\* scraped_docs, and a missing key raises KeyError.
get_diff(scraped, local) ==
    LET scraped_keys == Range(DictKeys(scraped))
        local_keys == Range(DictKeys(local))
        new_names == scraped_keys \ local_keys
        removed_names == local_keys \ scraped_keys
        IsUpdated(n) == Newer(DictGet(scraped, n), DictGet(local, n))
        updated_names == SelectSeq(DictKeys(local), IsUpdated)
    IN  IF \E n \in local_keys : n \notin scraped_keys
        THEN [tag |-> "KeyError"]
        ELSE [tag |-> "ok",
              new |-> {DictGet(scraped, n) : n \in new_names},
              removed |-> {DictGet(local, n) : n \in removed_names},
              updated |-> [k \in 1..Len(updated_names) |->
                              DictGet(scraped, updated_names[k])]]

\* ------------------------------------------------------------------- Init
\* Before the first run the directory is absent, or exists and is empty, or
\* holds a meta.json that is no JSON text.
Init ==
    /\ dirExists \in BOOLEAN
    /\ fs \in {EmptyDir} \cup {[EmptyDir EXCEPT ![MetaName] = Malformed]}
    /\ (~dirExists => fs = EmptyDir)
    /\ cmd = "none"
    /\ pc = "idle"
    /\ exit = "none"
    /\ document_info = <<>>
    /\ i = 0
    /\ scraperInvoked = FALSE
    /\ fetchLog = <<>>
    /\ fetched = <<>>
    /\ preDir = dirExists
    /\ preFs = fs
    /\ local_meta = NoMeta
    /\ scraped_info = <<>>
    /\ doc_diff = NoDiff
    /\ output = NoOutput
    /\ aborted = FALSE

\* A command starts: the locals of the previous run are gone.
StartRun(c) ==
    /\ pc = "idle"
    /\ cmd' = c
    /\ document_info' = <<>>
    /\ i' = 0
    /\ scraperInvoked' = FALSE
    /\ fetchLog' = <<>>
    /\ fetched' = <<>>
    /\ preDir' = dirExists
    /\ preFs' = fs
    /\ scraped_info' = <<>>
    /\ doc_diff' = NoDiff
    /\ output' = NoOutput

\* --------------------------------------------------------------- download
\* Variant of DownloadStart: mkdir(exist_ok=True) and no existence check.
DownloadStartExistOk ==
    /\ StartRun("download")
    /\ exit' = "running"
    /\ pc' = "dl_scrape"
    /\ dirExists' = TRUE
    /\ local_meta' = NoMeta
    /\ UNCHANGED <<fs, aborted>>

\* download, lines 118-123: the existence check and dest_dir.mkdir().
DownloadStart ==
    /\ StartRun("download")
    /\ IF dirExists
       THEN /\ exit' = "DestinationExists"
            /\ pc' = "idle"
            /\ dirExists' = dirExists
       ELSE \/ /\ exit' = "running"
               /\ pc' = "dl_scrape"
               /\ dirExists' = TRUE
            \/ /\ exit' = "OSError"      \* mkdir raises: no parent directory
               /\ pc' = "idle"
               /\ dirExists' = dirExists
    /\ local_meta' = NoMeta
    /\ UNCHANGED <<fs, aborted>>

\* Variant of DownloadScrape: a failed scrape removes the directory it made.
DownloadScrapeCleanup ==
    /\ pc = "dl_scrape"
    /\ scraperInvoked' = TRUE
    /\ \/ /\ \E s \in ScrapeResults : document_info' = s
          /\ pc' = "dl_loop"
          /\ UNCHANGED <<exit, aborted, dirExists>>
       \/ /\ exit' = "ScrapeFailure"
          /\ pc' = "idle"
          /\ aborted' = TRUE
          /\ dirExists' = FALSE
          /\ UNCHANGED document_info
    /\ UNCHANGED <<fs, cmd, i, fetchLog, fetched, preDir, preFs,
                   local_meta, scraped_info, doc_diff, output>>

\* download, line 125: scrape_document_info() returns a list or raises
\* (scrapy missing, the spider exits non-zero, its output is no JSON).
DownloadScrape ==
    /\ pc = "dl_scrape"
    /\ scraperInvoked' = TRUE
    /\ \/ /\ \E s \in ScrapeResults : document_info' = s
          /\ pc' = "dl_loop"
          /\ UNCHANGED <<exit, aborted>>
       \/ /\ exit' = "ScrapeFailure"
          /\ pc' = "idle"
          /\ aborted' = TRUE
          /\ UNCHANGED document_info
    /\ UNCHANGED <<dirExists, fs, cmd, i, fetchLog, fetched, preDir, preFs,
                   local_meta, scraped_info, doc_diff, output>>

\* The stages of one iteration of download_documents at which it can raise.
FetchStages == {"mkdir", "urlopen", "open", "read", "write"}

\* Variant of WriteDocument: the file is created and the body never written.
WriteDocumentNoBody(files, doc_info, body) ==
    [files EXCEPT ![doc_info.file_path] = Truncated]

\* The file system after the (i+1)-th record was written in full.
WriteDocument(files, doc_info, body) ==
    [files EXCEPT ![doc_info.file_path] = DocFile(body)]

\* Variant of DownloadDocument: a failed record is skipped and the loop goes on.
DownloadDocumentSkipFailed ==
    /\ pc = "dl_loop"
    /\ i < Len(document_info)
    /\ LET doc_info == document_info[i + 1]
       IN  \/ \E body \in Bytes :
                /\ fetchLog' = Append(fetchLog, doc_info.url)
                /\ fetched' = Append(fetched, body)
                /\ fs' = [fs EXCEPT ![doc_info.file_path] = DocFile(body)]
           \/ \E stage \in {"urlopen", "read"} :
                /\ fetchLog' = Append(fetchLog, doc_info.url)
                /\ fs' = IF stage = "read"
                         THEN [fs EXCEPT ![doc_info.file_path] = Truncated]
                         ELSE fs
                /\ UNCHANGED fetched
    /\ i' = i + 1
    /\ UNCHANGED <<dirExists, cmd, pc, exit, aborted, document_info,
                   scraperInvoked, preDir, preFs, local_meta, scraped_info,
                   doc_diff, output>>

\* download_documents, lines 33-40, one iteration: the (i+1)-th record.
\* urlopen comes before open("wb"), which creates or truncates the file;
\* response.read() comes before write.
DownloadDocument ==
    /\ pc = "dl_loop"
    /\ i < Len(document_info)
    /\ LET doc_info == document_info[i + 1]
       IN  \/ \E body \in Bytes :
                /\ fetchLog' = Append(fetchLog, doc_info.url)
                /\ fetched' = Append(fetched, body)
                /\ fs' = WriteDocument(fs, doc_info, body)
                /\ i' = i + 1
                /\ UNCHANGED <<pc, exit, aborted>>
           \/ \E stage \in FetchStages :
                /\ fetchLog' = IF stage = "mkdir" THEN fetchLog
                               ELSE Append(fetchLog, doc_info.url)
                /\ fs' = IF stage \in {"read", "write"}
                         THEN [fs EXCEPT ![doc_info.file_path] = Truncated]
                         ELSE fs
                /\ exit' = "FetchFailure"
                /\ pc' = "idle"
                /\ aborted' = TRUE
                /\ UNCHANGED <<fetched, i>>
    /\ UNCHANGED <<dirExists, cmd, document_info, scraperInvoked, preDir,
                   preFs, local_meta, scraped_info, doc_diff, output>>

\* The manifest of lines 130-134.
Manifest(now, info) ==
    [description |-> "OpenFoodFacts non-EU packager codes",
     updated |-> now,
     document_info |-> info]

\* lines 135-136: meta.json is opened with "w" and the manifest dumped into it.
WriteMeta(files, meta) == [files EXCEPT ![MetaName] = json_dump(meta)]

\* download, lines 128-136: after the loop, meta.json is written.
DownloadWriteMeta ==
    /\ pc = "dl_loop"
    /\ i = Len(document_info)
    /\ \/ /\ \E now \in Timestamps :
               fs' = WriteMeta(fs, Manifest(now, document_info))
          /\ exit' = "ok"
       \/ /\ fs' \in {fs, [fs EXCEPT ![MetaName] = Malformed]}
          /\ exit' = "OSError"      \* open("w") or the dump raises
    /\ pc' = "idle"
    /\ UNCHANGED <<dirExists, cmd, document_info, i, scraperInvoked, fetchLog,
                   fetched, preDir, preFs, local_meta, scraped_info, doc_diff,
                   output, aborted>>

\* ----------------------------------------------------------------- status
\* local_meta.get(key, default)
Get(meta, key, default) == IF key \in DOMAIN meta THEN meta[key] ELSE default

\* Variant of StatusLoad: an absent meta.json is created with the empty manifest.
StatusLoadCreatesMeta ==
    /\ StartRun("status")
    /\ IF fs[MetaName] = NoFile
       THEN /\ local_meta' = [document_info |-> <<>>]
            /\ fs' = [fs EXCEPT ![MetaName] = json_dump(local_meta')]
            /\ exit' = "running"
            /\ pc' = "st_scrape"
       ELSE IF CanLoad(fs[MetaName])
       THEN /\ local_meta' = json_load(fs[MetaName])
            /\ fs' = fs
            /\ exit' = "running"
            /\ pc' = "st_scrape"
       ELSE /\ local_meta' = NoMeta
            /\ fs' = fs
            /\ exit' = "ManifestParseError"
            /\ pc' = "idle"
    /\ UNCHANGED <<dirExists, aborted>>

\* status, lines 84-92: the local manifest, empty when meta.json is absent.
StatusLoad ==
    /\ StartRun("status")
    /\ IF fs[MetaName] = NoFile
       THEN /\ local_meta' = [document_info |-> <<>>]
            /\ exit' = "running"
            /\ pc' = "st_scrape"
       ELSE IF CanLoad(fs[MetaName])
       THEN /\ local_meta' = json_load(fs[MetaName])
            /\ exit' = "running"
            /\ pc' = "st_scrape"
       ELSE /\ local_meta' = NoMeta
            /\ exit' = "ManifestParseError"
            /\ pc' = "idle"
    /\ UNCHANGED <<dirExists, fs, aborted>>

\* status, line 94.
StatusScrape ==
    /\ pc = "st_scrape"
    /\ scraperInvoked' = TRUE
    /\ \/ /\ \E s \in ScrapeResults : scraped_info' = s
          /\ pc' = "st_diff"
          /\ UNCHANGED exit
       \/ /\ exit' = "ScrapeFailure"
          /\ pc' = "idle"
          /\ UNCHANGED scraped_info
    /\ UNCHANGED <<dirExists, fs, cmd, document_info, i, fetchLog, fetched,
                   preDir, preFs, local_meta, doc_diff, output, aborted>>

\* What status prints, lines 97-108.
Report(output_format, meta, diff) ==
    IF output_format = "json"
    THEN [format |-> "json", diff |-> diff]
    ELSE [format |-> "summary",
          last_updated |-> Get(meta, "updated", "never"),
          new |-> Cardinality(diff.new),
          removed |-> Cardinality(diff.removed),
          updated |-> Len(diff.updated)]

\* status, lines 95-108: the diff, then the report.
StatusDiff ==
    /\ pc = "st_diff"
    /\ doc_diff' = get_diff(scraped_info, local_meta.document_info)
    /\ IF doc_diff'.tag = "ok"
       THEN /\ \E output_format \in {"summary", "json"} :
                 output' = Report(output_format, local_meta, doc_diff')
            /\ exit' = "ok"
       ELSE /\ output' = output
            /\ exit' = "KeyError"
    /\ pc' = "idle"
    /\ UNCHANGED <<dirExists, fs, cmd, document_info, i, scraperInvoked,
                   fetchLog, fetched, preDir, preFs, local_meta, scraped_info,
                   aborted>>

Next ==
    \/ DownloadStart
    \/ DownloadScrape
    \/ DownloadDocument
    \/ DownloadWriteMeta
    \/ StatusLoad
    \/ StatusScrape
    \/ StatusDiff

Spec == Init /\ [][Next]_vars

\* ------------------------------------------------------------- properties
\* A status run has called get_diff(scraped_info, local).
DiffRan == cmd = "status" /\ pc = "idle" /\ exit \in {"ok", "KeyError"}

LocalDocs == local_meta.document_info

UniqueInputs == UniquePaths(scraped_info) /\ UniquePaths(LocalDocs)

DownloadSucceeded == cmd = "download" /\ pc = "idle" /\ exit = "ok"

\* C1: for inputs with unique file_path values, get_diff returns a result
\* whose removed list holds exactly the local records whose file_path is not
\* in scraped (the local versions).
C1_RemovedIsLocalOnly ==
    (DiffRan /\ UniqueInputs) =>
        /\ doc_diff.tag = "ok"
        /\ doc_diff.removed =
               {d \in Range(LocalDocs) : d.file_path \notin FilePaths(scraped_info)}

\* C2: get_diff([], A) yields removed = A, new = [] and updated = [].
C2_EmptyScrapedRemovesAll ==
    (DiffRan /\ UniqueInputs /\ scraped_info = <<>>) =>
        /\ doc_diff.tag = "ok"
        /\ doc_diff.removed = Range(LocalDocs)
        /\ doc_diff.new = {}
        /\ doc_diff.updated = <<>>

\* C3: updated holds exactly the scraped versions of the records in both
\* collections whose scraped publication_date is strictly greater; a record in
\* both with equal dates is in none of new, removed, updated.
C3_UpdatedIsStrictlyNewer ==
    (DiffRan /\ UniqueInputs) =>
        /\ doc_diff.tag = "ok"
        /\ Range(doc_diff.updated) =
               {s \in Range(scraped_info) :
                   \E d \in Range(LocalDocs) :
                       /\ d.file_path = s.file_path
                       /\ s.publication_date > d.publication_date}
        /\ Len(doc_diff.updated) = Cardinality(Range(doc_diff.updated))
        /\ \A s \in Range(scraped_info), d \in Range(LocalDocs) :
               (s.file_path = d.file_path
                   /\ s.publication_date = d.publication_date) =>
                   /\ s \notin doc_diff.new
                   /\ d \notin doc_diff.removed
                   /\ s \notin Range(doc_diff.updated)

\* C4: new holds exactly the scraped records whose file_path is not in
\* local; get_diff(A, []) yields new = A, removed = [] and updated = [].
C4_NewIsScrapedOnly ==
    (DiffRan /\ UniqueInputs) =>
        /\ doc_diff.tag = "ok"
        /\ doc_diff.new =
               {s \in Range(scraped_info) : s.file_path \notin FilePaths(LocalDocs)}
        /\ (LocalDocs = <<>> =>
               /\ doc_diff.new = Range(scraped_info)
               /\ doc_diff.removed = {}
               /\ doc_diff.updated = <<>>)

\* C5: get_diff(A, A) yields new = [], removed = [] and updated = [].
C5_DiffOfEqualIsEmpty ==
    (DiffRan /\ UniqueInputs /\ scraped_info = LocalDocs) =>
        /\ doc_diff.tag = "ok"
        /\ doc_diff.new = {}
        /\ doc_diff.removed = {}
        /\ doc_diff.updated = <<>>

C5_Witness ==
    /\ DiffRan
    /\ scraped_info = LocalDocs
    /\ Len(scraped_info) = 2
    /\ doc_diff.tag = "ok"

\* C6: download on a directory that exists fails at once with the
\* destination-exists error: the scraper is not invoked, no url is opened and
\* nothing under the directory is created or written.
C6_ExistingDestFailsFirst ==
    (cmd = "download" /\ preDir) =>
        /\ pc = "idle"
        /\ exit = "DestinationExists"
        /\ ~scraperInvoked
        /\ fetchLog = <<>>
        /\ fetched = <<>>
        /\ fs = preFs
        /\ dirExists = preDir

C6_Witness ==
    /\ cmd = "download"
    /\ preDir
    /\ exit = "DestinationExists"
    /\ fs[MetaName] = NoFile

\* C7: after a download run that succeeded, meta.json holds a manifest whose
\* document_info is the scraped list, and every scraped record's file holds
\* the bytes read from that record's url.
C7_SuccessfulDownloadState ==
    DownloadSucceeded =>
        /\ CanLoad(fs[MetaName])
        /\ json_load(fs[MetaName]).document_info = document_info
        /\ Len(fetched) = Len(document_info)
        /\ Len(fetchLog) = Len(document_info)
        /\ \A k \in 1..Len(document_info) :
               /\ fetchLog[k] = document_info[k].url
               /\ fs[document_info[k].file_path] = DocFile(fetched[k])

C7_Witness ==
    /\ DownloadSucceeded
    /\ Len(document_info) = 2
    /\ fetched[1] # fetched[2]
    /\ document_info[1].url # document_info[2].url

\* C8: status never changes the directory: at every point of a status run,
\* however it ends, the files and meta.json are as they were when it started.
C8_StatusReadOnly ==
    cmd = "status" => (fs = preFs /\ dirExists = preDir)

C8_Witness ==
    /\ cmd = "status"
    /\ pc = "idle"
    /\ exit = "KeyError"
    /\ CanLoad(fs[MetaName])
    /\ \E p \in DocPaths : fs[p] # NoFile

\* C9: download fetches the records one at a time in input order; when the
\* k-th fails, nothing after it is fetched, the files of records 1..k-1 keep
\* their content, the run ends with the failure, and meta.json is not
\* written: the manifest is written only after every record was downloaded.
C9_FetchInOrderAbortOnFailure ==
    cmd = "download" =>
        /\ Len(fetchLog) \in {i, i + 1}
        /\ Len(fetchLog) <= Len(document_info)
        /\ \A k \in 1..Len(fetchLog) : fetchLog[k] = document_info[k].url
        /\ (Len(fetchLog) = i + 1 => (pc = "idle" /\ exit = "FetchFailure"))
        /\ (exit = "FetchFailure" =>
               /\ pc = "idle"
               /\ i < Len(document_info)
               /\ Len(fetched) = i
               /\ \A k \in 1..i :
                      fs[document_info[k].file_path] = DocFile(fetched[k])
               /\ fs[MetaName] = NoFile)
        /\ (fs[MetaName] # preFs[MetaName] =>
               /\ i = Len(document_info)
               /\ Len(fetched) = Len(document_info))

C9_Witness ==
    /\ cmd = "download"
    /\ exit = "FetchFailure"
    /\ Len(document_info) = 2
    /\ i = 1
    /\ fs[document_info[1].file_path] = DocFile(1)
    /\ fs[document_info[2].file_path] = Truncated

\* C10: download creates the directory before it invokes the scraper; once a
\* download run has aborted on a scrape or fetch failure the directory exists
\* without meta.json, every later download run fails with the
\* destination-exists error, and a status run finds an empty local manifest
\* and reports "never".
C10_AbortedDownloadLeavesDir ==
    /\ []((cmd = "download" /\ scraperInvoked) => dirExists)
    /\ [](aborted => (dirExists /\ fs[MetaName] = NoFile))
    /\ [][(aborted /\ pc = "idle" /\ cmd' = "download") =>
             (pc' = "idle" /\ exit' = "DestinationExists" /\ ~scraperInvoked')]_vars
    /\ []((aborted /\ cmd = "status") =>
             /\ local_meta = [document_info |-> <<>>]
             /\ (output.format = "summary" => output.last_updated = "never"))

C10_Witness ==
    /\ aborted
    /\ cmd = "status"
    /\ output.format = "summary"
    /\ output.last_updated = "never"
    /\ \E p \in DocPaths : fs[p] # NoFile
====
